---- MODULE Spec2Model ----
(***************************************************************************)
(* rCTRL2: the bridge between the synchronous real-time loop (main.rs,     *)
(* rctrl_sync.rs) and the tokio side (rctrl_async.rs): the two bounded     *)
(* mpsc channels, the shutdown watch channel, the interrupt handler, the   *)
(* listener, the per-connection read/write loops, the latest-value watch   *)
(* slot and the influx batcher.                                            *)
(*                                                                         *)
(* main.rs returns at line 43, before the channel wiring; the model is of  *)
(* the code that follows that early return.  Context::run (rctrl_sync.rs)  *)
(* has no caller under src/; it is driven here by the same                 *)
(* `while running` loop as main's own tick body.                           *)
(*                                                                         *)
(* The ADS101x adapter (rctrl_hw/src/adc/ads101x.rs) is modelled on its    *)
(* own: the Config word codec, new, config and read_raw over u16 words.    *)
(***************************************************************************)
EXTENDS Integers, Sequences, FiniteSets, TLC

\* ---------------------------------------------------------------- bounds
MaxTicks == 2
MaxConns == 2
MaxIntr == 2
NetTicks == 2
SatTicks == 18
SatMsgs == 18
BatchTicks == 52
BatchLag == 2
MaxMsgs == 3
MsgTicks == 1
TimeStep == 15

\* ------------------------------------------------------ program constants
WordMod == 65536
OS_OFFSET == 15
MUX_OFFSET == 12
PGA_OFFSET == 9
MODE_OFFSET == 8
DATA_RATE_OFFSET == 5
COMP_MODE_OFFSET == 4
COMP_POLARITY_OFFSET == 3
COMP_LATCH_OFFSET == 2
COMP_QUEUE_OFFSET == 0
ResetWord == 33669
DataCap == 16
CmdCap == 16
FlushThreshold == 50
RateLimitMs == 15
InitCapacity == 20

VARIABLES
  profile,    \* the environment of the run: "sys", "net", "satdata", "satcmd", "batch"
  rtImpl,     \* the tick body in use: "main" (main.rs) or "context" (Context::run)
  tracked,    \* Data's #[influx(...)] annotations, one flag per member in declaration order
  clockOk,    \* SystemTime::now() is not before UNIX_EPOCH
  rtpc,       \* position of the synchronous thread
  tick,       \* number of ticks started
  data,       \* the frame under construction: main's `data` / run's local `data`
  tickLog,    \* steps taken so far in the current tick, in order
  running,    \* AtomicBool running
  dataq,      \* mpsc::channel::<Data>(16): queued frames
  dataTx,     \* the data sender is alive
  dataRx,     \* the data receiver is alive
  cmdq,       \* mpsc::channel::<Cmd>(16): queued commands
  cmdRx,      \* the command receiver is alive
  applied,    \* ids of the commands applied by the loop, in order
  hpc,        \* position of the ctrlc handler thread
  intr,       \* number of interrupts delivered
  shutdown,   \* watch::channel(false): [val, ver]
  handleTaken,\* tokio_handle.take() has returned Some
  tpc,        \* position of tokio_main / the tokio thread
  lpc,        \* await_connection task
  accepted,   \* number of connections accepted by the listener
  conns,      \* per-connection task state
  nmsgs,      \* number of inbound websocket messages so far
  lastMsg,    \* the last inbound message taken by a read loop: [conn, kind]
  slot,       \* watch::channel(Data::default()): [val, ver]
  bpc,        \* process_data task
  elapsed,    \* last_data_latest_tx.elapsed(), saturated
  sendRes,    \* what the last data_latest_tx.send returned: "none", "ok", "err"
  capacity,   \* influx_write_buf_capacity
  bufcap,     \* the capacity the current influx_write_buf was created with
  buf,        \* influx_write_buf, as the sequence of records pushed
  entries,    \* influx_write_entries
  flushed,    \* buffers handed to write_to_influx, in hand-off order
  received,   \* frames received by process_data, in order
  derived,    \* records returned by to_line_protocol_entries, in frame then member order
  errs,       \* number of ERROR events logged, per origin
  apc,        \* position of the ADS101x's user: "new", "ready", "configured", "read", "failed"
  devCfg,     \* the device's Config register, as the word smbus_read_word_data returns
  devConv,    \* the device's Conversion register, as the word smbus_read_word_data returns
  request,    \* the Config passed to ADS101x::config
  config,     \* ADS101x.config: the adapter's copy of the device's configuration
  result,     \* what the last ADS101x call returned: "none", "ok", "err"
  io,         \* the bus transfers of the last ADS101x call: "none", "ok", "write_err", "read_err"
  count,      \* read_raw: `raw as i16`
  voltage,    \* read_raw: the value returned, in microvolts
  adcLog,     \* number of log events emitted by ADS101x::config
  annots,     \* the #[influx(..)] annotation written on each member of the entity
  gpc,        \* position of the derive: "derive", "generated", "rejected", "called"
  tags,       \* generated `tags.push` statements after the measurement: <<key, member read>>
  fields,     \* generated `fields.push` statements: <<key, member read>>
  line_protocol  \* what to_line_protocol returned

envVars == <<profile, rtImpl, tracked, clockOk>>
rtVars == <<rtpc, tick, data, tickLog, applied>>
chanVars == <<dataq, dataTx, dataRx, cmdq, cmdRx>>
hVars == <<hpc, intr, handleTaken>>
netVars == <<lpc, accepted, conns, nmsgs, lastMsg>>
batchVars == <<bpc, elapsed, sendRes, capacity, bufcap, buf, entries, flushed, received, derived>>
hwVars == <<apc, devCfg, devConv, request, config, result, io, count, voltage, adcLog>>
lpVars == <<annots, gpc, tags, fields, line_protocol>>
\* The adapter and the rest of the program do not share state here.
sysVars == <<envVars, rtVars, chanVars, hVars, netVars, batchVars, running, shutdown,
             tpc, slot, errs>>
vars == <<envVars, rtVars, chanVars, hVars, netVars, batchVars, running, shutdown,
          tpc, slot, errs, hwVars, lpVars>>

\* --------------------------------------------------------------- values
Members == <<"sensor", "valve", "log_msg">>

\* Data::default(): every member None (sensor 0 stands for None).
DataDefault == [seq |-> 0, sensor |-> 0, valve |-> "none", msg |-> "none"]

\* main.rs: Pressure::new(..) with pressure None, valve Some(false), log_msg None.
DataMainInit == [seq |-> 0, sensor |-> 0, valve |-> "false", msg |-> "none"]

CmdKinds == {"ValveOpen", "ValveClose"}

\* How far each environment drives the program.
TickBound ==
  IF profile = "satdata" THEN SatTicks
  ELSE IF profile = "batch" THEN BatchTicks
  ELSE IF profile = "net" THEN NetTicks
  ELSE IF profile = "msg" THEN MsgTicks
  ELSE MaxTicks

MsgBound ==
  IF profile \in {"satcmd", "backpressure"} THEN SatMsgs
  ELSE IF profile = "msg" THEN MaxMsgs
  ELSE 0

\* In the "batch" environment the consumer is never more than BatchLag frames behind.
LagBound == IF profile = "batch" THEN BatchLag ELSE DataCap + 1

Terminated == rtpc = "terminated"

\* match cmd.cmd { ValveOpen => ..., ValveClose => ... }
ApplyCmd(d, cmd) ==
  IF cmd.kind = "ValveOpen"
  THEN [d EXCEPT !.valve = "true", !.msg = "valve opened"]
  ELSE [d EXCEPT !.valve = "false", !.msg = "valve closed"]

\* Mutant of TrySend: a send that takes no account of the capacity.
TrySendUnbounded(q, rxAlive, cap) ==
  IF ~rxAlive THEN "closed" ELSE "ok"

\* mpsc::Sender::try_send: Closed when the receiver is gone, Full when no permit
\* is left, otherwise the value is queued.
TrySend(q, rxAlive, cap) ==
  IF ~rxAlive THEN "closed"
  ELSE IF Len(q) >= cap THEN "full"
  ELSE "ok"

\* ------------------------------------------------- the synchronous thread
\* while running.load(SeqCst) { ... } ; event!("exited") ; main returns and
\* drops data_tx and cmd_rx.
LoopCheck ==
  /\ rtpc = "check"
  /\ IF running
     THEN /\ tick < TickBound
          /\ Len(dataq) < LagBound
          /\ tick' = tick + 1
          /\ tickLog' = <<>>
          /\ rtpc' = IF rtImpl = "main" THEN "sensor" ELSE "recv"
          /\ data' = IF rtImpl = "main" THEN data ELSE DataDefault
          /\ UNCHANGED <<dataTx, cmdRx>>
     ELSE /\ rtpc' = "exited"
          /\ dataTx' = FALSE
          /\ cmdRx' = FALSE
          /\ UNCHANGED <<tick, tickLog, data>>
  /\ UNCHANGED <<envVars, hwVars, lpVars, applied, dataq, dataRx, cmdq, hVars, netVars, batchVars,
                 running, shutdown, tpc, slot, errs>>

\* The process ends once main has returned.
ProcessExit ==
  /\ rtpc = "exited"
  /\ rtpc' = "terminated"
  /\ UNCHANGED <<envVars, hwVars, lpVars, tick, data, tickLog, applied, chanVars, hVars, netVars,
                 batchVars, running, shutdown, tpc, slot, errs>>

\* main.rs: sleep(50 ms); data.sensor.pressure = Some(unwrap_or(0.0) + 0.1)
MainSensor ==
  /\ rtImpl = "main"
  /\ rtpc = "sensor"
  /\ data' = [data EXCEPT !.sensor = data.sensor + 1]
  /\ tickLog' = Append(tickLog, "read")
  /\ rtpc' = "recv"
  /\ UNCHANGED <<envVars, hwVars, lpVars, tick, applied, chanVars, hVars, netVars, batchVars,
                 running, shutdown, tpc, slot, errs>>

RECURSIVE ApplyAll(_, _)
ApplyAll(d, q) == IF q = <<>> THEN d ELSE ApplyAll(ApplyCmd(d, Head(q)), Tail(q))

\* Mutant of TryRecvCmd: the loop drains every queued command in one tick.
TryRecvCmdDrain ==
  /\ rtpc = "recv"
  /\ data' = ApplyAll(data, cmdq)
  /\ cmdq' = <<>>
  /\ applied' = applied \o [k \in 1..Len(cmdq) |-> cmdq[k].id]
  /\ tickLog' = Append(tickLog, "cmd")
  /\ rtpc' = "send"
  /\ UNCHANGED <<envVars, hwVars, lpVars, tick, dataq, dataTx, dataRx, cmdRx, hVars, netVars,
                 batchVars, running, shutdown, tpc, slot, errs>>

\* cmd_rx.try_recv(): Ok(cmd) applies it; Empty and Disconnected are ignored.
TryRecvCmd ==
  /\ rtpc = "recv"
  /\ IF cmdq # <<>>
     THEN /\ data' = ApplyCmd(data, Head(cmdq))
          /\ cmdq' = Tail(cmdq)
          /\ applied' = Append(applied, Head(cmdq).id)
     ELSE UNCHANGED <<data, cmdq, applied>>
  /\ tickLog' = Append(tickLog, "cmd")
  /\ rtpc' = "send"
  /\ UNCHANGED <<envVars, hwVars, lpVars, tick, dataq, dataTx, dataRx, cmdRx, hVars, netVars,
                 batchVars, running, shutdown, tpc, slot, errs>>

\* main.rs logs a failed try_send only while running is still true;
\* Context::run logs it always.
SendLogged == IF rtImpl = "main" THEN running ELSE TRUE

\* Mutant of TrySendData: the send's result is unwrapped, the thread stops on
\* an error.
TrySendDataUnwrap ==
  /\ rtpc = "send"
  /\ TrySend(dataq, dataRx, DataCap) = "ok"
  /\ dataq' = Append(dataq, [data EXCEPT !.seq = tick])
  /\ tickLog' = Append(tickLog, "push")
  /\ rtpc' = IF rtImpl = "main" THEN "check" ELSE "read"
  /\ UNCHANGED <<envVars, hwVars, lpVars, tick, data, applied, dataTx, dataRx, cmdq, cmdRx, hVars,
                 netVars, batchVars, running, shutdown, tpc, slot, errs>>

\* data_tx.try_send(data.clone())
TrySendData ==
  /\ rtpc = "send"
  /\ LET r == TrySend(dataq, dataRx, DataCap)
         f == [data EXCEPT !.seq = tick]
     IN /\ dataq' = IF r = "ok" THEN Append(dataq, f) ELSE dataq
        /\ tickLog' = Append(tickLog,
                        IF r = "ok" THEN "push"
                        ELSE IF SendLogged THEN "drop_logged" ELSE "drop_silent")
  /\ rtpc' = IF rtImpl = "main" THEN "check" ELSE "read"
  /\ UNCHANGED <<envVars, hwVars, lpVars, tick, data, applied, dataTx, dataRx, cmdq, cmdRx, hVars,
                 netVars, batchVars, running, shutdown, tpc, slot, errs>>

\* Context::run: sleep(500 ms); data.sensor = adc.read(..) (Some on Ok, None and a
\* log on Err); run returns and its local `data` is dropped.
CtxRead ==
  /\ rtImpl = "context"
  /\ rtpc = "read"
  /\ \E ok \in BOOLEAN :
       /\ data' = [data EXCEPT !.sensor = IF ok THEN 1 ELSE 0]
       /\ tickLog' = Append(tickLog, IF ok THEN "read" ELSE "read_err")
  /\ rtpc' = "check"
  /\ UNCHANGED <<envVars, hwVars, lpVars, tick, applied, chanVars, hVars, netVars, batchVars,
                 running, shutdown, tpc, slot, errs>>

\* ------------------------------------------------- the ctrlc handler thread
IntrBound ==
  IF profile = "sys" THEN MaxIntr
  ELSE IF profile = "satdata" THEN 1
  ELSE 0

\* shutdown_rx lives in tokio_main's frame until tokio_main returns.
ShutdownRxAlive == tpc \in {"bind", "select"}

\* watch::Sender::send: Err, and the value untouched, when no receiver is left;
\* otherwise the value is replaced and the version bumped.
WatchSend(w, v, nrx) ==
  IF nrx = 0 THEN w ELSE [val |-> v, ver |-> w.ver + 1]

\* What watch::Sender::send returns.
WatchSendResult(nrx) == IF nrx = 0 THEN "err" ELSE "ok"

\* The handler starts: event!("exiting..."); running_c.store(false).
Interrupt ==
  /\ ~Terminated
  /\ hpc = "idle"
  /\ intr < IntrBound
  /\ intr' = intr + 1
  /\ running' = FALSE
  /\ hpc' = "send"
  /\ UNCHANGED <<envVars, hwVars, lpVars, rtVars, chanVars, handleTaken, netVars, batchVars,
                 shutdown, tpc, slot, errs>>

\* shutdown_tx.send(true), an Err is logged.
HandlerSend ==
  /\ ~Terminated
  /\ hpc = "send"
  /\ shutdown' = WatchSend(shutdown, TRUE, IF ShutdownRxAlive THEN 1 ELSE 0)
  /\ errs' = IF ShutdownRxAlive THEN errs ELSE [errs EXCEPT !.shutdown = @ + 1]
  /\ hpc' = "join"
  /\ UNCHANGED <<envVars, hwVars, lpVars, rtVars, chanVars, intr, handleTaken, netVars, batchVars,
                 running, tpc, slot>>

\* Mutant of HandlerJoin: the handler returns without joining the tokio thread.
HandlerJoinNoWait ==
  /\ rtpc # "terminated"
  /\ hpc = "join"
  /\ handleTaken' = TRUE
  /\ hpc' = "idle"
  /\ UNCHANGED <<envVars, hwVars, lpVars, rtVars, chanVars, intr, netVars, batchVars, running,
                 shutdown, tpc, slot, errs>>

\* match tokio_handle.take() { Some(thread) => thread.join().unwrap(), None => () }
\* join blocks until the tokio thread has finished.
HandlerJoin ==
  /\ ~Terminated
  /\ hpc = "join"
  /\ handleTaken \/ tpc = "finished"
  /\ handleTaken' = TRUE
  /\ hpc' = "idle"
  /\ UNCHANGED <<envVars, hwVars, lpVars, rtVars, chanVars, intr, netVars, batchVars, running,
                 shutdown, tpc, slot, errs>>

\* ------------------------------------------------------------ tokio_main
NoCmd == [id |-> 0, kind |-> "none"]

ConnInit == [st |-> "none", seen |-> 0, pend |-> NoCmd, got |-> <<>>]

ConnIds == 1..MaxConns

ConnBound ==
  IF profile \in {"sys", "net", "late"} THEN MaxConns
  ELSE IF profile \in {"satcmd", "msg", "backpressure"} THEN 1
  ELSE 0

\* Dropping the runtime drops every task still pending.
CancelConn(c) ==
  IF c.st \in {"upgrading", "open"} THEN [c EXCEPT !.st = "cancelled"] ELSE c

\* TcpListener::bind(&addr).await? ; watch::channel(Data::default()) ; spawn both
\* tasks ; first poll of the select!, with no await in between: if the shutdown
\* version has already changed tokio_main returns before a spawned task is polled.
\* On a bind error tokio_main returns Err before anything is spawned; its
\* arguments data_rx, cmd_tx and shutdown_rx are dropped with it.
TokioBind ==
  /\ ~Terminated
  /\ tpc = "bind"
  /\ \E ok \in BOOLEAN :
       IF ok
       THEN /\ tpc' = IF shutdown.ver > 0 THEN "returned" ELSE "select"
            /\ lpc' = "run"
            /\ bpc' = "run"
            /\ UNCHANGED dataRx
       ELSE /\ tpc' = "returned"
            /\ dataRx' = FALSE
            /\ UNCHANGED <<lpc, bpc>>
  /\ UNCHANGED <<envVars, hwVars, lpVars, rtVars, dataq, dataTx, cmdq, cmdRx, hVars, accepted, conns,
                 nmsgs, lastMsg, elapsed, sendRes, capacity, bufcap, buf, entries, flushed, received, derived,
                 running, shutdown, slot, errs>>

\* select! { _ = join_all(tasks) => (), _ = shutdown_rx.changed() => () } ; Ok(())
\* process_data never returns, so join_all never completes; the select ends when
\* the shutdown version has changed.
TokioSelect ==
  /\ ~Terminated
  /\ tpc = "select"
  /\ shutdown.ver > 0
  /\ tpc' = "returned"
  /\ UNCHANGED <<envVars, hwVars, lpVars, rtVars, chanVars, hVars, netVars, batchVars, running,
                 shutdown, slot, errs>>

\* block_on returns, the closure ends and `rt` is dropped: every spawned task is
\* dropped where it is suspended, and with them data_rx and every cmd_tx.
RuntimeDrop ==
  /\ ~Terminated
  /\ tpc = "returned"
  /\ tpc' = "finished"
  /\ lpc' = IF lpc = "run" THEN "cancelled" ELSE lpc
  /\ bpc' = IF bpc = "run" THEN "cancelled" ELSE bpc
  /\ conns' = [i \in ConnIds |-> CancelConn(conns[i])]
  /\ dataRx' = FALSE
  /\ UNCHANGED <<envVars, hwVars, lpVars, rtVars, dataq, dataTx, cmdq, cmdRx, hVars, accepted, nmsgs, lastMsg,
                 elapsed, sendRes, capacity, bufcap, buf, entries, flushed, received, derived,
                 running, shutdown, slot, errs>>

\* Tasks are polled only while block_on runs tokio_main.
TasksRun == ~Terminated /\ tpc = "select"

\* ------------------------------------------------------ await_connection
\* When the environment's clients connect: in the "late" environment the first
\* one before anything is published, the others after.
ClientArrives(i) ==
  IF profile = "late" THEN (IF i = 1 THEN slot.ver = 0 ELSE slot.ver > 0) ELSE TRUE

\* Mutant of Accept: the connection's receiver has seen the slot's current
\* version, as one made by subscribe() would.
AcceptSubscribed(i) ==
  /\ tpc = "select" /\ rtpc # "terminated"
  /\ lpc = "run"
  /\ accepted < ConnBound
  /\ i = accepted + 1
  /\ ClientArrives(i)
  /\ accepted' = accepted + 1
  /\ conns' = [conns EXCEPT ![i] = [ConnInit EXCEPT !.st = "upgrading", !.seen = slot.ver]]
  /\ UNCHANGED <<envVars, hwVars, lpVars, rtVars, chanVars, hVars, lpc, nmsgs, lastMsg, batchVars, running,
                 shutdown, tpc, slot, errs>>

\* while let Ok((stream, _)) = listener.accept().await { clone cmd_tx and
\* data_latest_rx ; tokio::spawn(accept_connection(..)) }
\* The clone of the listener's receiver carries the listener's version, which
\* the listener never advances.
Accept(i) ==
  /\ TasksRun
  /\ lpc = "run"
  /\ accepted < ConnBound
  /\ i = accepted + 1
  /\ ClientArrives(i)
  /\ accepted' = accepted + 1
  /\ conns' = [conns EXCEPT ![i] = [ConnInit EXCEPT !.st = "upgrading"]]
  /\ UNCHANGED <<envVars, hwVars, lpVars, rtVars, chanVars, hVars, lpc, nmsgs, lastMsg, batchVars, running,
                 shutdown, tpc, slot, errs>>

\* accept() returns Err: the loop ends and the task returns.
AcceptErr ==
  /\ TasksRun
  /\ lpc = "run"
  /\ lpc' = "returned"
  /\ UNCHANGED <<envVars, hwVars, lpVars, rtVars, chanVars, hVars, accepted, conns, nmsgs, lastMsg, batchVars,
                 running, shutdown, tpc, slot, errs>>

\* ----------------------------------------- accept_connection, ws_read, ws_write
\* stream.peer_addr()? ; accept_async(stream).await? ; ws_stream.split()
Upgrade(i) ==
  /\ TasksRun
  /\ conns[i].st = "upgrading"
  /\ \E ok \in BOOLEAN :
       conns' = [conns EXCEPT ![i].st = IF ok THEN "open" ELSE "failed"]
  /\ UNCHANGED <<envVars, hwVars, lpVars, rtVars, chanVars, hVars, lpc, accepted, nmsgs, lastMsg, batchVars,
                 running, shutdown, tpc, slot, errs>>

\* Inbound messages a client may send.
MsgKinds ==
  IF profile \in {"satcmd", "backpressure"}
  THEN {IF nmsgs % 2 = 0 THEN "ValveOpen" ELSE "ValveClose"}
  ELSE CmdKinds \cup {"garbage", "text"}

\* Mutant of SendCmd: try_send in place of send().await, the command is dropped
\* when no permit is free.
SendCmdDropping(c, cmd) ==
  IF ~cmdRx THEN [conn |-> [c EXCEPT !.st = "failed", !.pend = NoCmd], q |-> cmdq]
  ELSE IF Len(cmdq) < CmdCap
       THEN [conn |-> [c EXCEPT !.pend = NoCmd], q |-> Append(cmdq, cmd)]
       ELSE [conn |-> [c EXCEPT !.pend = NoCmd], q |-> cmdq]

\* cmd_tx.send(cmd).await: Err when the receiver is gone; with a free permit the
\* command is queued; otherwise the future stays pending, holding the command.
SendCmd(c, cmd) ==
  IF ~cmdRx THEN [conn |-> [c EXCEPT !.st = "failed", !.pend = NoCmd], q |-> cmdq]
  ELSE IF Len(cmdq) < CmdCap
       THEN [conn |-> [c EXCEPT !.pend = NoCmd], q |-> Append(cmdq, cmd)]
       ELSE [conn |-> [c EXCEPT !.pend = cmd], q |-> cmdq]

\* Mutant of WsRead: a message that does not decode ends the read loop with an
\* error.
WsReadCloseOnGarbage(i, m) ==
  /\ tpc = "select" /\ rtpc # "terminated"
  /\ conns[i].st = "open"
  /\ conns[i].pend = NoCmd
  /\ nmsgs < MsgBound
  /\ m \in MsgKinds
  /\ nmsgs' = nmsgs + 1
  /\ lastMsg' = [conn |-> i, kind |-> m]
  /\ IF m \in CmdKinds
     THEN LET r == SendCmd(conns[i], [id |-> nmsgs + 1, kind |-> m])
          IN /\ conns' = [conns EXCEPT ![i] = r.conn]
             /\ cmdq' = r.q
             /\ UNCHANGED errs
     ELSE /\ errs' = IF m = "garbage" THEN [errs EXCEPT !.decode = @ + 1] ELSE errs
          /\ conns' = IF m = "garbage" THEN [conns EXCEPT ![i].st = "failed"] ELSE conns
          /\ UNCHANGED cmdq
  /\ UNCHANGED <<envVars, hwVars, lpVars, rtVars, dataq, dataTx, dataRx, cmdRx, hVars, lpc, accepted,
                 batchVars, running, shutdown, tpc, slot>>

\* ws_read: one message taken from ws_rx.next(): a binary message that decodes
\* is sent on, one that does not is logged, any other message is skipped.
WsRead(i, m) ==
  /\ TasksRun
  /\ conns[i].st = "open"
  /\ conns[i].pend = NoCmd
  /\ nmsgs < MsgBound
  /\ m \in MsgKinds
  /\ nmsgs' = nmsgs + 1
  /\ lastMsg' = [conn |-> i, kind |-> m]
  /\ IF m \in CmdKinds
     THEN LET r == SendCmd(conns[i], [id |-> nmsgs + 1, kind |-> m])
          IN /\ conns' = [conns EXCEPT ![i] = r.conn]
             /\ cmdq' = r.q
             /\ UNCHANGED errs
     ELSE /\ errs' = IF m = "garbage" THEN [errs EXCEPT !.decode = @ + 1] ELSE errs
          /\ UNCHANGED <<conns, cmdq>>
  /\ UNCHANGED <<envVars, hwVars, lpVars, rtVars, dataq, dataTx, dataRx, cmdRx, hVars, lpc, accepted,
                 batchVars, running, shutdown, tpc, slot>>

\* The pending cmd_tx.send completes: a permit was freed or the receiver is gone.
WsSendResume(i) ==
  /\ TasksRun
  /\ conns[i].st = "open"
  /\ conns[i].pend # NoCmd
  /\ ~cmdRx \/ Len(cmdq) < CmdCap
  /\ LET r == SendCmd(conns[i], conns[i].pend)
     IN /\ conns' = [conns EXCEPT ![i] = r.conn]
        /\ cmdq' = r.q
  /\ UNCHANGED <<envVars, hwVars, lpVars, rtVars, dataq, dataTx, dataRx, cmdRx, hVars, lpc, accepted,
                 nmsgs, lastMsg, batchVars, running, shutdown, tpc, slot, errs>>

\* Mutant of WsReadErr: the error ends the listener task too.
WsReadErrFatal(i) ==
  /\ tpc = "select" /\ rtpc # "terminated"
  /\ conns[i].st = "open"
  /\ conns[i].pend = NoCmd
  /\ conns' = [conns EXCEPT ![i].st = "failed"]
  /\ lpc' = "returned"
  /\ UNCHANGED <<envVars, hwVars, lpVars, rtVars, chanVars, hVars, accepted, nmsgs, lastMsg, batchVars,
                 running, shutdown, tpc, slot, errs>>

\* ws_rx.next() yields Some(Err(e)): `msg?` ends ws_read, the select and the task.
WsReadErr(i) ==
  /\ TasksRun
  /\ conns[i].st = "open"
  /\ conns[i].pend = NoCmd
  /\ conns' = [conns EXCEPT ![i].st = "failed"]
  /\ UNCHANGED <<envVars, hwVars, lpVars, rtVars, chanVars, hVars, lpc, accepted, nmsgs, lastMsg, batchVars,
                 running, shutdown, tpc, slot, errs>>

\* ws_rx.next() yields None: ws_read returns Ok(()), the select ends, Ok(addr).
WsReadEnd(i) ==
  /\ TasksRun
  /\ conns[i].st = "open"
  /\ conns[i].pend = NoCmd
  /\ conns' = [conns EXCEPT ![i].st = "closed"]
  /\ UNCHANGED <<envVars, hwVars, lpVars, rtVars, chanVars, hVars, lpc, accepted, nmsgs, lastMsg, batchVars,
                 running, shutdown, tpc, slot, errs>>

\* Mutant of WsWrite: the write loop is not polled while the read loop's send is
\* pending.
WsWriteAfterSend(i) ==
  /\ tpc = "select" /\ rtpc # "terminated"
  /\ conns[i].st = "open"
  /\ conns[i].pend = NoCmd
  /\ conns[i].seen # slot.ver
  /\ \E ok \in BOOLEAN :
       conns' = [conns EXCEPT
                   ![i].seen = slot.ver,
                   ![i].got = IF ok THEN Append(@, [ver |-> slot.ver, val |-> slot.val])
                              ELSE @,
                   ![i].st = IF ok THEN "open" ELSE "failed"]
  /\ UNCHANGED <<envVars, hwVars, lpVars, rtVars, chanVars, hVars, lpc, accepted, nmsgs, lastMsg, batchVars,
                 running, shutdown, tpc, slot, errs>>

\* Mutant of WsWrite: the version read is not marked as seen.
WsWriteNoMark(i) ==
  /\ tpc = "select" /\ rtpc # "terminated"
  /\ conns[i].st = "open"
  /\ conns[i].seen # slot.ver
  /\ conns' = [conns EXCEPT
                 ![i].got = Append(@, [ver |-> slot.ver, val |-> slot.val])]
  /\ UNCHANGED <<envVars, hwVars, lpVars, rtVars, chanVars, hVars, lpc, accepted, nmsgs, lastMsg, batchVars,
                 running, shutdown, tpc, slot, errs>>

\* ws_write: changed() returns once the slot's version differs from the one this
\* receiver has seen and marks it seen; borrow().clone() reads the slot; the
\* serialized frame is sent, and a send error ends the task.
WsWrite(i) ==
  /\ TasksRun
  /\ conns[i].st = "open"
  /\ conns[i].seen # slot.ver
  /\ \E ok \in BOOLEAN :
       conns' = [conns EXCEPT
                   ![i].seen = slot.ver,
                   ![i].got = IF ok THEN Append(@, [ver |-> slot.ver, val |-> slot.val])
                              ELSE @,
                   ![i].st = IF ok THEN "open" ELSE "failed"]
  /\ UNCHANGED <<envVars, hwVars, lpVars, rtVars, chanVars, hVars, lpc, accepted, nmsgs, lastMsg, batchVars,
                 running, shutdown, tpc, slot, errs>>

\* ---------------------------------------------------------- process_data
\* Receivers of the latest-value slot: the listener's, and one clone per
\* connection task that has not ended.
RxCount ==
  (IF lpc = "run" THEN 1 ELSE 0)
  + Cardinality({i \in ConnIds : conns[i].st \in {"upgrading", "open"}})

\* Mutant of Present: a record is pushed for a member that is None.
PresentAlways(f, m) == TRUE

\* match self.<member> { Some(entry) => .., None => () }
Present(f, m) ==
  IF m = 1 THEN f.sensor # 0
  ELSE IF m = 2 THEN f.valve # "none"
  ELSE f.msg # "none"

\* Mutant of FirstUntracked: the loop over the members never breaks.
FirstUntrackedNever(tr) == Len(tr) + 1

\* generate_to_line_protocol_entries: the loop over the members breaks at the
\* first untracked one.
FirstUntracked(tr) ==
  IF \E i \in 1..Len(tr) : ~tr[i]
  THEN CHOOSE i \in 1..Len(tr) : ~tr[i] /\ \A j \in 1..(i - 1) : tr[j]
  ELSE Len(tr) + 1

\* The generated to_line_protocol_entries: one record per Some member, in
\* declaration order; entry.to_line_protocol()? fails when the timestamp cannot
\* be taken.  A record is <<frame seq, member index>>.
ToLineProtocolEntries(f, tr, clk) ==
  LET n == FirstUntracked(tr) - 1
      recs == SelectSeq([i \in 1..n |-> <<f.seq, i>>], LAMBDA r : Present(f, r[2]))
  IN IF recs # <<>> /\ ~clk THEN [ok |-> FALSE, recs |-> <<>>]
     ELSE [ok |-> TRUE, recs |-> recs]

Reverse(s) == [i \in 1..Len(s) |-> s[Len(s) + 1 - i]]

\* Mutant of PopOrder: the entries are drained from the front.
PopOrderFifo(recs) == recs

\* while let Some(e) = line_protocol_entries.pop() { buf.push_str(e) ; entries += 1 }
PopOrder(recs) == Reverse(recs)

\* Length of a record's text.
RecLen(r) == <<3, 2, 4>>[r[2]]

RECURSIVE BufLen(_)
BufLen(b) == IF b = <<>> THEN 0 ELSE RecLen(Head(b)) + BufLen(Tail(b))

\* Mutant of RateLimitPassed: >= in place of >.
RateLimitPassedAtLimit(ms) == ms >= RateLimitMs

\* if last_data_latest_tx.elapsed().as_millis() > 15
RateLimitPassed(ms) == ms > RateLimitMs

\* Mutant of ShouldFlush: >= in place of >.
ShouldFlushAtThreshold(n) == n >= FlushThreshold

\* if influx_write_entries > 50
ShouldFlush(n) == n > FlushThreshold

\* Mutant of GrowCapacity: the capacity is never raised.
GrowCapacityNever(cap, b) == cap

\* if influx_write_buf.len() > influx_write_buf_capacity { capacity = len }
GrowCapacity(cap, b) == IF BufLen(b) > cap THEN BufLen(b) ELSE cap

\* Mutant of BatcherRecv: the result of data_latest_tx.send is unwrapped, a
\* failed send ends the task with the frame unprocessed.
BatcherRecvSendUnwrap ==
  /\ tpc = "select" /\ rtpc # "terminated"
  /\ bpc = "run"
  /\ dataq # <<>>
  /\ LET f == Head(dataq)
         pub == RateLimitPassed(elapsed)
         conv == IF pub /\ RxCount = 0 THEN [ok |-> TRUE, recs |-> <<>>]
                 ELSE ToLineProtocolEntries(f, tracked, clockOk)
         nbuf == buf \o PopOrder(conv.recs)
         nent == entries + Len(conv.recs)
         flush == ShouldFlush(nent)
         sendErr == pub /\ RxCount = 0
     IN /\ dataq' = Tail(dataq)
        /\ bpc' = IF sendErr THEN "returned" ELSE bpc
        /\ slot' = IF pub THEN WatchSend(slot, f, RxCount) ELSE slot
        /\ sendRes' = IF pub THEN WatchSendResult(RxCount) ELSE sendRes
        /\ elapsed' = IF pub /\ RxCount > 0 THEN 0 ELSE elapsed
        /\ errs' = IF conv.ok THEN errs ELSE [errs EXCEPT !.convert = @ + 1]
        /\ capacity' = IF flush THEN GrowCapacity(capacity, nbuf) ELSE capacity
        /\ bufcap' = IF flush THEN capacity' ELSE bufcap
        /\ flushed' = IF flush THEN Append(flushed, nbuf) ELSE flushed
        /\ buf' = IF flush THEN <<>> ELSE nbuf
        /\ entries' = IF flush THEN 0 ELSE nent
        /\ received' = Append(received, f.seq)
        /\ derived' = derived \o conv.recs
  /\ UNCHANGED <<envVars, hwVars, lpVars, rtVars, dataTx, dataRx, cmdq, cmdRx, hVars, netVars,
                 running, shutdown, tpc>>

\* One turn of `while let Some(data) = data_rx.recv().await`: no await separates
\* the receive from the next receive.  After a flush the outer loop starts over:
\* String::with_capacity(influx_write_buf_capacity), influx_write_entries = 0.
BatcherRecv ==
  /\ TasksRun
  /\ bpc = "run"
  /\ dataq # <<>>
  /\ LET f == Head(dataq)
         pub == RateLimitPassed(elapsed)
         conv == ToLineProtocolEntries(f, tracked, clockOk)
         nbuf == buf \o PopOrder(conv.recs)
         nent == entries + Len(conv.recs)
         flush == ShouldFlush(nent)
     IN /\ dataq' = Tail(dataq)
        /\ slot' = IF pub THEN WatchSend(slot, f, RxCount) ELSE slot
        /\ sendRes' = IF pub THEN WatchSendResult(RxCount) ELSE sendRes
        /\ elapsed' = IF pub THEN 0 ELSE elapsed
        /\ errs' = IF conv.ok THEN errs ELSE [errs EXCEPT !.convert = @ + 1]
        /\ capacity' = IF flush THEN GrowCapacity(capacity, nbuf) ELSE capacity
        /\ bufcap' = IF flush THEN capacity' ELSE bufcap
        /\ flushed' = IF flush THEN Append(flushed, nbuf) ELSE flushed
        /\ buf' = IF flush THEN <<>> ELSE nbuf
        /\ entries' = IF flush THEN 0 ELSE nent
        /\ received' = Append(received, f.seq)
        /\ derived' = derived \o conv.recs
  /\ UNCHANGED <<envVars, hwVars, lpVars, rtVars, dataTx, dataRx, cmdq, cmdRx, hVars, netVars, bpc,
                 running, shutdown, tpc>>

\* Mutant of BatcherRecvNone: process_data returns at the end of the channel,
\* after handing the partial buffer to a flush task.
BatcherRecvNoneReturn ==
  /\ tpc = "select" /\ rtpc # "terminated"
  /\ bpc = "run"
  /\ dataq = <<>>
  /\ ~dataTx
  /\ bpc' = "returned"
  /\ flushed' = IF buf # <<>> THEN Append(flushed, buf) ELSE flushed
  /\ buf' = <<>>
  /\ entries' = 0
  /\ UNCHANGED <<envVars, hwVars, lpVars, rtVars, chanVars, hVars, netVars, elapsed, sendRes,
                 capacity, bufcap, received, derived, running, shutdown, tpc, slot, errs>>

\* data_rx.recv() yields None (channel empty, every sender dropped): the inner
\* loop ends and the outer loop starts over with a fresh buffer and counter.
BatcherRecvNone ==
  /\ TasksRun
  /\ bpc = "run"
  /\ dataq = <<>>
  /\ ~dataTx
  /\ buf' = <<>>
  /\ entries' = 0
  /\ bufcap' = capacity
  /\ UNCHANGED <<envVars, hwVars, lpVars, rtVars, chanVars, hVars, netVars, bpc, elapsed, sendRes,
                 capacity, flushed, received, derived, running, shutdown, tpc, slot, errs>>

\* Time passes for last_data_latest_tx.elapsed(); past the rate limit the
\* reading is kept as it is.
Advance ==
  /\ TasksRun
  /\ bpc = "run"
  /\ profile \in {"net", "msg", "backpressure", "late"}
  /\ elapsed <= RateLimitMs
  /\ elapsed' = elapsed + TimeStep
  /\ UNCHANGED <<envVars, hwVars, lpVars, rtVars, chanVars, hVars, netVars, bpc, sendRes, capacity, bufcap,
                 buf, entries, flushed, received, derived, running, shutdown, tpc, slot, errs>>

\* -------------------------------------------------------- influx derive
\* The members of the entity the derive is applied to, in declaration order.
LpMembers == <<"first", "second", "third">>

LpNames == {LpMembers[i] : i \in 1..Len(LpMembers)}

\* The keys an annotation may give: the name of another member, or a new one.
LpKeys == {"first", "second", "id"}

\* ContainerAttributes::default().measurement
Measurement == "measurment"

\* What a member may carry: nothing, #[influx(tag)], #[influx(tag = "K")],
\* #[influx(field)], #[influx(field = "K")].
Annotations ==
  {[attr |-> "absent", value |-> "none"]}
    \cup {[attr |-> a, value |-> v] : a \in {"tag", "field"}, v \in {"none"} \cup LpKeys}

AnnotationSets == [1..Len(LpMembers) -> Annotations]

Unannotated == [i \in 1..Len(LpMembers) |-> [attr |-> "absent", value |-> "none"]]

\* No call of to_line_protocol has returned.
NoLine == [ret |-> "none", measurement |-> "none", tags |-> <<>>, fields |-> <<>>]

\* FieldAttributes::parse followed by unwrap_or_default(): Tag(Some(K)),
\* Tag(None), Field(Some(K)), Field(None), and Untracked without annotation.
FieldAttributesParse(a) ==
  IF a.attr = "tag" THEN [variant |-> "Tag", key |-> a.value]
  ELSE IF a.attr = "field" THEN [variant |-> "Field", key |-> a.value]
  ELSE [variant |-> "Untracked", key |-> "none"]

\* Option::unwrap_or
UnwrapOr(opt, default) == IF opt = "none" THEN default ELSE opt

\* The members whose parsed annotation is of the given variant, in order.
MembersOf(as, variant) ==
  SelectSeq([i \in 1..Len(LpMembers) |->
               [attributes |-> FieldAttributesParse(as[i]), field |-> LpMembers[i]]],
            LAMBDA e : e.attributes.variant = variant)

\* The Tag arm: format!("tags.push(format!(\"{}={{}}\", self.{}));",
\* t.unwrap_or(field), field): the key is t or the name, the member read is field.
TagPushes(as) ==
  LET sel == MembersOf(as, "Tag")
  IN [k \in 1..Len(sel) |->
        <<UnwrapOr(sel[k].attributes.key, sel[k].field), sel[k].field>>]

\* The Field arm: format!("fields.push(format!(\"{}={{}}\",
\* self.{}.to_field_value()));", field, f.unwrap_or(field)): the key is the name,
\* the member read is f or the name.
FieldPushes(as) ==
  LET sel == MembersOf(as, "Field")
  IN [k \in 1..Len(sel) |->
        <<sel[k].field, UnwrapOr(sel[k].attributes.key, sel[k].field)>>]

\* The generated body compiles: every `self.<x>` names a member of the entity.
Compiles(ts, fs) ==
  /\ \A k \in 1..Len(ts) : ts[k][2] \in LpNames
  /\ \A k \in 1..Len(fs) : fs[k][2] \in LpNames

\* DeriveStruct::generate_to_line_protocol: the body of to_line_protocol is
\* generated from the members' annotations, then compiled.
GenerateToLineProtocol ==
  /\ profile = "derive"
  /\ gpc = "derive"
  /\ tags' = TagPushes(annots)
  /\ fields' = FieldPushes(annots)
  /\ gpc' = IF Compiles(tags', fields') THEN "generated" ELSE "rejected"
  /\ UNCHANGED <<sysVars, hwVars, annots, line_protocol>>

\* The generated to_line_protocol: the pushes in order, the timestamp (an error
\* when the clock is before UNIX_EPOCH), the line, return Ok(line_protocol).
ToLineProtocol ==
  /\ profile = "derive"
  /\ gpc = "generated"
  /\ gpc' = "called"
  /\ line_protocol' =
       IF clockOk
       THEN [ret |-> "ok", measurement |-> Measurement, tags |-> tags, fields |-> fields]
       ELSE [NoLine EXCEPT !.ret = "err"]
  /\ UNCHANGED <<sysVars, hwVars, annots, tags, fields>>

\* ------------------------------------------------------------- ads101x
\* u16 arithmetic.
Words == 0..(WordMod - 1)

RECURSIVE BitAnd(_, _)
BitAnd(a, b) ==
  IF a = 0 \/ b = 0 THEN 0
  ELSE (a % 2) * (b % 2) + 2 * BitAnd(a \div 2, b \div 2)

RECURSIVE BitOr(_, _)
BitOr(a, b) ==
  IF a = 0 THEN b
  ELSE IF b = 0 THEN a
  ELSE (IF a % 2 = 1 \/ b % 2 = 1 THEN 1 ELSE 0) + 2 * BitOr(a \div 2, b \div 2)

\* u16 << n: the bits shifted out are lost.
Shl(a, n) == (a * 2^n) % WordMod

Shr(a, n) == a \div 2^n

\* `raw as i16`
AsI16(w) == IF w >= WordMod \div 2 THEN w - WordMod ELSE w

\* The enums, in declaration order; `x as u16` is the discriminant.
OsValues == <<"Off", "On">>

MuxValues == <<"Ain0Ain1", "Ain0Ain3", "Ain1Ain3", "Ain2Ain3",
               "Ain0Gnd", "Ain1Gnd", "Ain2Gnd", "Ain3Gnd">>

PgaValues == <<"Fsr6_144V", "Fsr4_096V", "Fsr2_048V", "Fsr1_024V", "Fsr0_512V", "Fsr0_256V">>

ModeValues == <<"Continuous", "SingleShot">>

DataRateValues == <<"Sps128", "Sps250", "Sps490", "Sps920", "Sps1600", "Sps2400", "Sps3300">>

CompModeValues == <<"Traditional", "Window">>

CompPolarityValues == <<"ActiveLow", "ActiveHigh">>

CompLatchValues == <<"Nonlatching", "Latching">>

CompQueueValues == <<"OneConversion", "TwoConversion", "FourConversion", "Disable">>

SeqRange(s) == {s[i] : i \in 1..Len(s)}

\* Mutant of AsU16: the discriminants are counted from one.
AsU16FromOne(values, v) == CHOOSE i \in 1..Len(values) : values[i] = v

AsU16(values, v) == (CHOOSE i \in 1..Len(values) : values[i] = v) - 1

\* The `_ => unreachable!()` arm of a field decoder.
Unreachable == "unreachable"

\* impl From<u16> for Os
OsFromWord(word) ==
  LET n == Shr(BitAnd(word, 32768), OS_OFFSET)
  IN CASE n = 0 -> "Off" [] n = 1 -> "On" [] OTHER -> Unreachable

\* impl From<u16> for Mux
MuxFromWord(word) ==
  LET n == Shr(BitAnd(word, 28672), MUX_OFFSET)
  IN CASE n = 0 -> "Ain0Ain1" [] n = 1 -> "Ain0Ain3" [] n = 2 -> "Ain1Ain3"
       [] n = 3 -> "Ain2Ain3" [] n = 4 -> "Ain0Gnd" [] n = 5 -> "Ain1Gnd"
       [] n = 6 -> "Ain2Gnd" [] n = 7 -> "Ain3Gnd" [] OTHER -> Unreachable

\* Mutant of PgaFromWord: no arm for the reserved patterns 6 and 7.
PgaFromWordDefinedOnly(word) ==
  LET n == Shr(BitAnd(word, 3584), PGA_OFFSET)
  IN CASE n = 0 -> "Fsr6_144V" [] n = 1 -> "Fsr4_096V" [] n = 2 -> "Fsr2_048V"
       [] n = 3 -> "Fsr1_024V" [] n = 4 -> "Fsr0_512V" [] n = 5 -> "Fsr0_256V"
       [] OTHER -> Unreachable

\* impl From<u16> for Pga
PgaFromWord(word) ==
  LET n == Shr(BitAnd(word, 3584), PGA_OFFSET)
  IN CASE n = 0 -> "Fsr6_144V" [] n = 1 -> "Fsr4_096V" [] n = 2 -> "Fsr2_048V"
       [] n = 3 -> "Fsr1_024V" [] n = 4 -> "Fsr0_512V" [] n = 5 -> "Fsr0_256V"
       [] n = 6 -> "Fsr0_256V" [] n = 7 -> "Fsr0_256V" [] OTHER -> Unreachable

\* Pga::as_lsb, in microvolts.
AsLsb(pga) ==
  CASE pga = "Fsr6_144V" -> 3000 [] pga = "Fsr4_096V" -> 2000 [] pga = "Fsr2_048V" -> 1000
    [] pga = "Fsr1_024V" -> 500 [] pga = "Fsr0_512V" -> 250 [] pga = "Fsr0_256V" -> 125

\* impl From<u16> for Mode
ModeFromWord(word) ==
  LET n == Shr(BitAnd(word, 256), MODE_OFFSET)
  IN CASE n = 0 -> "Continuous" [] n = 1 -> "SingleShot" [] OTHER -> Unreachable

\* impl From<u16> for DataRate
DataRateFromWord(word) ==
  LET n == Shr(BitAnd(word, 224), DATA_RATE_OFFSET)
  IN CASE n = 0 -> "Sps128" [] n = 1 -> "Sps250" [] n = 2 -> "Sps490" [] n = 3 -> "Sps920"
       [] n = 4 -> "Sps1600" [] n = 5 -> "Sps2400" [] n = 6 -> "Sps3300"
       [] n = 7 -> "Sps3300" [] OTHER -> Unreachable

\* impl From<u16> for CompMode
CompModeFromWord(word) ==
  LET n == Shr(BitAnd(word, 16), COMP_MODE_OFFSET)
  IN CASE n = 0 -> "Traditional" [] n = 1 -> "Window" [] OTHER -> Unreachable

\* impl From<u16> for CompPolarity
CompPolarityFromWord(word) ==
  LET n == Shr(BitAnd(word, 8), COMP_POLARITY_OFFSET)
  IN CASE n = 0 -> "ActiveLow" [] n = 1 -> "ActiveHigh" [] OTHER -> Unreachable

\* impl From<u16> for CompLatch
CompLatchFromWord(word) ==
  LET n == Shr(BitAnd(word, 4), COMP_LATCH_OFFSET)
  IN CASE n = 0 -> "Nonlatching" [] n = 1 -> "Latching" [] OTHER -> Unreachable

\* impl From<u16> for CompQueue
CompQueueFromWord(word) ==
  LET n == Shr(BitAnd(word, 3), COMP_QUEUE_OFFSET)
  IN CASE n = 0 -> "OneConversion" [] n = 1 -> "TwoConversion"
       [] n = 2 -> "FourConversion" [] n = 3 -> "Disable" [] OTHER -> Unreachable

\* Config::default()
ConfigDefault ==
  [os |-> "On", mux |-> "Ain0Ain1", pga |-> "Fsr2_048V", mode |-> "SingleShot",
   data_rate |-> "Sps1600", comp_mode |-> "Traditional", comp_polarity |-> "ActiveLow",
   comp_latch |-> "Nonlatching", comp_queue |-> "Disable"]

\* Every Config that can be built from the enums.
Configs ==
  [os : SeqRange(OsValues), mux : SeqRange(MuxValues), pga : SeqRange(PgaValues),
   mode : SeqRange(ModeValues), data_rate : SeqRange(DataRateValues),
   comp_mode : SeqRange(CompModeValues), comp_polarity : SeqRange(CompPolarityValues),
   comp_latch : SeqRange(CompLatchValues), comp_queue : SeqRange(CompQueueValues)]

\* impl From<u16> for Config
ConfigFromWord(word) ==
  [os |-> OsFromWord(word), mux |-> MuxFromWord(word), pga |-> PgaFromWord(word),
   mode |-> ModeFromWord(word), data_rate |-> DataRateFromWord(word),
   comp_mode |-> CompModeFromWord(word), comp_polarity |-> CompPolarityFromWord(word),
   comp_latch |-> CompLatchFromWord(word), comp_queue |-> CompQueueFromWord(word)]

\* Mutant of ConfigToWord: the mode bit is left out.
ConfigToWordNoMode(c) ==
  LET os == Shl(AsU16(OsValues, c.os), OS_OFFSET)
      mux == Shl(AsU16(MuxValues, c.mux), MUX_OFFSET)
      pga == Shl(AsU16(PgaValues, c.pga), PGA_OFFSET)
      data_rate == Shl(AsU16(DataRateValues, c.data_rate), DATA_RATE_OFFSET)
      comp_mode == Shl(AsU16(CompModeValues, c.comp_mode), COMP_MODE_OFFSET)
      comp_polarity == Shl(AsU16(CompPolarityValues, c.comp_polarity), COMP_POLARITY_OFFSET)
      comp_latch == Shl(AsU16(CompLatchValues, c.comp_latch), COMP_LATCH_OFFSET)
      comp_queue == Shl(AsU16(CompQueueValues, c.comp_queue), COMP_QUEUE_OFFSET)
  IN BitOr(os, BitOr(mux, BitOr(pga, BitOr(data_rate, BitOr(comp_mode,
       BitOr(comp_polarity, BitOr(comp_latch, comp_queue)))))))

\* impl From<Config> for u16
ConfigToWord(c) ==
  LET os == Shl(AsU16(OsValues, c.os), OS_OFFSET)
      mux == Shl(AsU16(MuxValues, c.mux), MUX_OFFSET)
      pga == Shl(AsU16(PgaValues, c.pga), PGA_OFFSET)
      mode == Shl(AsU16(ModeValues, c.mode), MODE_OFFSET)
      data_rate == Shl(AsU16(DataRateValues, c.data_rate), DATA_RATE_OFFSET)
      comp_mode == Shl(AsU16(CompModeValues, c.comp_mode), COMP_MODE_OFFSET)
      comp_polarity == Shl(AsU16(CompPolarityValues, c.comp_polarity), COMP_POLARITY_OFFSET)
      comp_latch == Shl(AsU16(CompLatchValues, c.comp_latch), COMP_LATCH_OFFSET)
      comp_queue == Shl(AsU16(CompQueueValues, c.comp_queue), COMP_QUEUE_OFFSET)
  IN BitOr(os, BitOr(mux, BitOr(pga, BitOr(mode, BitOr(data_rate, BitOr(comp_mode,
       BitOr(comp_polarity, BitOr(comp_latch, comp_queue))))))))

\* read_raw, from the word read to `raw as i16`.
DecodeRaw(word) ==
  LET msb == BitAnd(word, 255)
      lsb == BitAnd(word, 65280)
      raw == Shr(BitOr(Shl(msb, 8), lsb), 4)
      ext == IF BitAnd(raw, 32768) # 0 THEN BitOr(61440, raw) ELSE raw
  IN AsI16(ext)


\* ADS101x::new: Config::from(dev.smbus_read_word_data(CONFIG_REG)?)
AdcNew ==
  /\ apc = "new"
  /\ profile \in {"cfg", "decode", "sample"}
  /\ \E ok \in BOOLEAN :
       IF ok
       THEN /\ config' = ConfigFromWord(devCfg)
            /\ apc' = "ready"
            /\ result' = "ok" /\ io' = "ok"
       ELSE /\ apc' = "failed"
            /\ result' = "err" /\ io' = "read_err"
            /\ UNCHANGED config
  /\ UNCHANGED <<sysVars, lpVars, devCfg, devConv, request, count, voltage, adcLog>>

\* What the device may hold in its Config register after a write of `word`: the
\* word, the word with the device's status bit (first byte on the wire, bit 7)
\* changed, or what it held before.
ReadBacks(word) ==
  {word, IF BitAnd(word, 128) # 0 THEN word - 128 ELSE word + 128, devCfg}

\* Mutant of AdcConfig: a read-back that differs from the request is an error.
AdcConfigStrict ==
  /\ apc = "ready"
  /\ profile = "cfg"
  /\ apc' = "configured"
  /\ \E wrote \in BOOLEAN, read \in BOOLEAN, rb \in ReadBacks(ConfigToWord(request)) :
       IF ~wrote
       THEN /\ rb = devCfg /\ read
            /\ result' = "err" /\ io' = "write_err"
            /\ UNCHANGED <<devCfg, config>>
       ELSE /\ devCfg' = rb
            /\ IF read
               THEN /\ config' = ConfigFromWord(rb)
                    /\ io' = "ok"
                    /\ result' = IF ConfigFromWord(rb) # request THEN "err" ELSE "ok"
               ELSE result' = "err" /\ io' = "read_err" /\ UNCHANGED config
  /\ UNCHANGED <<sysVars, lpVars, devConv, request, count, voltage, adcLog>>

\* Mutant of AdcConfig: self.config is assigned the request once the write has
\* succeeded, before the read-back.
AdcConfigMirrorFirst ==
  /\ apc = "ready"
  /\ profile = "cfg"
  /\ apc' = "configured"
  /\ \E wrote \in BOOLEAN, read \in BOOLEAN, rb \in ReadBacks(ConfigToWord(request)) :
       IF ~wrote
       THEN /\ rb = devCfg /\ read
            /\ result' = "err" /\ io' = "write_err"
            /\ UNCHANGED <<devCfg, config>>
       ELSE /\ devCfg' = rb
            /\ IF read
               THEN config' = ConfigFromWord(rb) /\ result' = "ok" /\ io' = "ok"
               ELSE config' = request /\ result' = "err" /\ io' = "read_err"
  /\ UNCHANGED <<sysVars, lpVars, devConv, request, count, voltage, adcLog>>

\* ADS101x::config: write the word, read it back into self.config, compare
\* (the comparison's branch is empty), Ok(()).
AdcConfig ==
  /\ apc = "ready"
  /\ profile = "cfg"
  /\ apc' = "configured"
  /\ \E wrote \in BOOLEAN, read \in BOOLEAN, rb \in ReadBacks(ConfigToWord(request)) :
       IF ~wrote
       THEN /\ rb = devCfg /\ read
            /\ result' = "err" /\ io' = "write_err"
            /\ UNCHANGED <<devCfg, config>>
       ELSE /\ devCfg' = rb
            /\ IF read
               THEN config' = ConfigFromWord(rb) /\ result' = "ok" /\ io' = "ok"
               ELSE result' = "err" /\ io' = "read_err" /\ UNCHANGED config
  /\ UNCHANGED <<sysVars, lpVars, devConv, request, count, voltage, adcLog>>

\* ADS101x::read_raw
AdcReadRaw ==
  /\ apc = "ready"
  /\ profile = "sample"
  /\ apc' = "read"
  /\ \E ok \in BOOLEAN :
       IF ok
       THEN /\ count' = DecodeRaw(devConv)
            /\ voltage' = DecodeRaw(devConv) * AsLsb(config.pga)
            /\ result' = "ok" /\ io' = "ok"
       ELSE /\ result' = "err" /\ io' = "read_err"
            /\ UNCHANGED <<count, voltage>>
  /\ UNCHANGED <<sysVars, lpVars, devCfg, devConv, request, config, adcLog>>

\* Config words, one per defined gain.
GainWords == {Shl(p, PGA_OFFSET) : p \in 0..(Len(PgaValues) - 1)}

\* ------------------------------------------------------- specifications
AllTracked == <<TRUE, TRUE, TRUE>>

TrackedSets ==
  IF profile = "batch"
  THEN {<<FALSE, TRUE, TRUE>>, <<TRUE, FALSE, TRUE>>, <<TRUE, TRUE, FALSE>>, AllTracked}
  ELSE {AllTracked}

InitWith(profiles) ==
  /\ profile \in profiles
  /\ rtImpl \in (IF profile \in {"cfg", "decode", "sample", "derive"}
                 THEN {"context"} ELSE {"main", "context"})
  /\ tracked \in TrackedSets
  /\ clockOk \in (IF profile \in {"batch", "derive"} THEN BOOLEAN ELSE {TRUE})
  /\ rtpc = "check"
  /\ tick = 0
  /\ data = IF rtImpl = "main" THEN DataMainInit ELSE DataDefault
  /\ tickLog = <<>>
  /\ running = TRUE
  /\ dataq = <<>>
  /\ dataTx = TRUE
  /\ dataRx = TRUE
  /\ cmdq = <<>>
  /\ cmdRx = TRUE
  /\ applied = <<>>
  /\ hpc = "idle"
  /\ intr = 0
  /\ shutdown = [val |-> FALSE, ver |-> 0]
  /\ handleTaken = FALSE
  /\ tpc = "bind"
  /\ lpc = "none"
  /\ accepted = 0
  /\ conns = [i \in ConnIds |-> ConnInit]
  /\ nmsgs = 0
  /\ lastMsg = [conn |-> 0, kind |-> "none"]
  /\ slot = [val |-> DataDefault, ver |-> 0]
  /\ bpc = "none"
  /\ elapsed = 0
  /\ sendRes = "none"
  /\ capacity = InitCapacity
  /\ bufcap = InitCapacity
  /\ buf = <<>>
  /\ entries = 0
  /\ flushed = <<>>
  /\ received = <<>>
  /\ derived = <<>>
  /\ errs = [decode |-> 0, convert |-> 0, shutdown |-> 0]
  /\ apc = "new"
  /\ devCfg \in (IF profile = "decode" THEN Words
                 ELSE IF profile = "sample" THEN GainWords ELSE {ResetWord})
  /\ devConv \in (IF profile = "sample" THEN Words ELSE {0})
  /\ request \in (IF profile = "cfg" THEN Configs ELSE {ConfigDefault})
  /\ config = ConfigDefault
  /\ result = "none"
  /\ io = "none"
  /\ count = 0
  /\ voltage = 0
  /\ adcLog = 0
  /\ annots \in (IF profile = "derive" THEN AnnotationSets ELSE {Unannotated})
  /\ gpc = "derive"
  /\ tags = <<>>
  /\ fields = <<>>
  /\ line_protocol = NoLine

Init == InitWith({"sys"})

InitNet == InitWith({"net"})

InitSatData == InitWith({"satdata"})

InitSatCmd == InitWith({"satcmd"})

InitBatch == InitWith({"batch"})

InitMsg == InitWith({"msg"})

InitDerive == InitWith({"derive"})

InitBackPressure == InitWith({"backpressure"})

InitLate == InitWith({"late"})

InitConfig == InitWith({"cfg"})

InitDecode == InitWith({"decode"})

InitSample == InitWith({"sample"})

\* The synchronous thread.
NextRT ==
  \/ LoopCheck
  \/ MainSensor
  \/ TryRecvCmd
  \/ TrySendData
  \/ CtxRead

\* The interrupt handler, the end of tokio_main and of the process.
NextShutdown ==
  \/ ProcessExit
  \/ Interrupt
  \/ HandlerSend
  \/ HandlerJoin
  \/ TokioSelect
  \/ RuntimeDrop
  \/ BatcherRecvNone

\* Shutdown and partial failure: every thread, the listener and the connections'
\* life cycle, no websocket traffic.
Next ==
  \/ NextRT
  \/ NextShutdown
  \/ TokioBind
  \/ \E i \in ConnIds : Accept(i)
  \/ AcceptErr
  \/ \E i \in ConnIds : Upgrade(i)
  \/ \E i \in ConnIds : WsReadErr(i)
  \/ \E i \in ConnIds : WsReadEnd(i)
  \/ BatcherRecv

\* The latest-value slot and the connections' write loops.
NextNet ==
  \/ NextRT
  \/ TokioBind
  \/ \E i \in ConnIds : Accept(i)
  \/ AcceptErr
  \/ \E i \in ConnIds : Upgrade(i)
  \/ \E i \in ConnIds : WsReadErr(i)
  \/ \E i \in ConnIds : WsReadEnd(i)
  \/ \E i \in ConnIds : WsWrite(i)
  \/ BatcherRecv
  \/ Advance

\* A saturated data channel.
NextSatData ==
  \/ NextRT
  \/ NextShutdown
  \/ TokioBind
  \/ BatcherRecv

\* A saturated command channel.
NextSatCmd ==
  \/ NextRT
  \/ TokioBind
  \/ \E i \in ConnIds : Accept(i)
  \/ \E i \in ConnIds : Upgrade(i)
  \/ \E i \in ConnIds : \E m \in CmdKinds : WsRead(i, m)
  \/ \E i \in ConnIds : WsSendResume(i)
  \/ \E i \in ConnIds : WsReadEnd(i)

\* The batcher fed by the loop.
NextBatch ==
  \/ NextRT
  \/ TokioBind
  \/ BatcherRecv

\* One connection's read loop fed every kind of inbound message.
NextMsg ==
  \/ NextRT
  \/ TokioBind
  \/ \E i \in ConnIds : Accept(i)
  \/ \E i \in ConnIds : Upgrade(i)
  \/ \E i \in ConnIds : \E m \in CmdKinds \cup {"garbage", "text"} : WsRead(i, m)
  \/ \E i \in ConnIds : WsWrite(i)
  \/ BatcherRecv
  \/ Advance

\* A saturated command channel with the connection's write loop at work.
NextBackPressure ==
  \/ NextRT
  \/ TokioBind
  \/ \E i \in ConnIds : Accept(i)
  \/ \E i \in ConnIds : Upgrade(i)
  \/ \E i \in ConnIds : \E m \in CmdKinds : WsRead(i, m)
  \/ \E i \in ConnIds : WsSendResume(i)
  \/ \E i \in ConnIds : WsWrite(i)
  \/ BatcherRecv
  \/ Advance

\* One client connected before the first publish, the next after it.
NextLate ==
  \/ NextRT
  \/ TokioBind
  \/ \E i \in ConnIds : Accept(i)
  \/ \E i \in ConnIds : Upgrade(i)
  \/ \E i \in ConnIds : WsWrite(i)
  \/ BatcherRecv
  \/ Advance

\* The derive applied to every annotated entity, then one call of the result.
NextDerive ==
  \/ GenerateToLineProtocol
  \/ ToLineProtocol

\* ADS101x::new then ADS101x::config, for every Config.
NextConfig ==
  \/ AdcNew
  \/ AdcConfig

\* ADS101x::new on every word the Config register may hold.
NextDecode == AdcNew

\* ADS101x::new then read_raw, for every word the Conversion register may hold.
NextSample ==
  \/ AdcNew
  \/ AdcReadRaw

Spec == Init /\ [][Next]_vars

SpecNet == InitNet /\ [][NextNet]_vars

SpecSatData == InitSatData /\ [][NextSatData]_vars

SpecSatCmd == InitSatCmd /\ [][NextSatCmd]_vars

SpecBatch == InitBatch /\ [][NextBatch]_vars

SpecMsg == InitMsg /\ [][NextMsg]_vars

SpecDerive == InitDerive /\ [][NextDerive]_vars

SpecBackPressure == InitBackPressure /\ [][NextBackPressure]_vars

SpecLate == InitLate /\ [][NextLate]_vars

SpecConfig == InitConfig /\ [][NextConfig]_vars

SpecDecode == InitDecode /\ [][NextDecode]_vars

SpecSample == InitSample /\ [][NextSample]_vars

\* --------------------------------------------------------------- helpers
Range(s) == {s[i] : i \in 1..Len(s)}

Last(s) == s[Len(s)]

RECURSIVE Flatten(_)
Flatten(ss) == IF ss = <<>> THEN <<>> ELSE Head(ss) \o Flatten(Tail(ss))

\* Every record handed off so far, in hand-off order, then the current buffer.
Persisted == Flatten(flushed) \o buf

\* Order of a tick's steps: command, sensor read, frame push.
StepRank(e) ==
  IF e = "cmd" THEN 1
  ELSE IF e \in {"read", "read_err"} THEN 2
  ELSE 3

\* ------------------------------------------------------------------ C1
\* C1 (as claimed): in every tick the steps taken so far are in the order
\* command drained and applied, sensor read, frame pushed.
C1_CommandReadPush ==
  \A i, j \in 1..Len(tickLog) :
    i < j => StepRank(tickLog[i]) < StepRank(tickLog[j])

\* ------------------------------------------------------------------ C2
\* The try_send step of the loop.
SendStep == rtpc = "send" /\ rtpc' # "send"

AfterSend == IF rtImpl = "main" THEN "check" ELSE "read"

CmdIds(q) == [k \in 1..Len(q) |-> q[k].id]

\* The commands held by suspended cmd_tx.send futures (one connection here).
PendingIds ==
  IF \E i \in ConnIds : conns[i].pend # NoCmd
  THEN <<(CHOOSE c \in {conns[i].pend : i \in ConnIds} : c # NoCmd).id>>
  ELSE <<>>

\* Within one tick: the loop has taken no command yet.
Saturated == nmsgs > CmdCap /\ applied = <<>>

C4_TasksReturnBeforeCompletion ==
  (tpc \in {"returned", "finished"} /\ shutdown.ver > 0 /\ lpc # "none")
    => lpc = "returned" /\ bpc = "returned"

\* ------------------------------------------------------------------ C5
\* C5 (as claimed): once the shutdown signal is set the listener accepts no
\* further connection, and no open connection is closed by force.
C5_NoAcceptAfterShutdown ==
  [][shutdown.val
       => /\ accepted' = accepted
          /\ \A i \in ConnIds :
               conns[i].st = "open" => conns'[i].st # "cancelled"]_vars

\* ------------------------------------------------------------------ C6
\* C6 (as claimed): whatever the outcome of the bind, the batcher task is started.
C6_BatcherStartedDespiteBindFailure ==
  tpc # "bind" => bpc # "none"

\* ------------------------------------------------------------------ C7
\* Every frame received so far yielded exactly one record.
OneRecordEach ==
  /\ Len(derived) = Len(received)
  /\ \A k \in 1..Len(received) : derived[k][1] = received[k]

\* C7 (as claimed): after 51 one-record frames there has been one flush, of 50
\* records, and 1 record is in the new buffer.
C7_FlushOf50Leaves1 ==
  (OneRecordEach /\ Len(received) = FlushThreshold + 1)
    => /\ Len(flushed) = 1
       /\ Len(flushed[1]) = FlushThreshold
       /\ Len(buf) = 1

\* C7 (amended): the flush happens when the counter exceeds 50: after 50
\* one-record frames nothing has been flushed; after 51 there has been exactly
\* one flush, of 51 records, and the new buffer is empty; the 52nd frame's record
\* is the first of the new buffer.
C7_FlushOf51Leaves0 ==
  OneRecordEach =>
    /\ Len(received) <= FlushThreshold
         => flushed = <<>> /\ Len(buf) = Len(received) /\ entries = Len(received)
    /\ Len(received) = FlushThreshold + 1
         => /\ Len(flushed) = 1
            /\ Len(flushed[1]) = FlushThreshold + 1
            /\ buf = <<>>
            /\ entries = 0
    /\ Len(received) = FlushThreshold + 2
         => Len(flushed) = 1 /\ Len(buf) = 1 /\ entries = 1

\* 51 one-record frames have gone through the batcher.
C7_Witness ==
  /\ OneRecordEach
  /\ Len(received) = FlushThreshold + 1
  /\ Len(flushed) = 1

\* ------------------------------------------------------------------ C8
\* Position of a frame in the order of receipt, of a record in the order of derivation.
FramePos(seq) == CHOOSE k \in 1..Len(received) : received[k] = seq

DerivedPos(r) == CHOOSE k \in 1..Len(derived) : derived[k] = r

\* C8 (as claimed): the persisted records are in the order of their derivation,
\* across frames and within a frame.
C8_DerivationOrder ==
  \A i, j \in 1..Len(Persisted) :
    i < j => DerivedPos(Persisted[i]) < DerivedPos(Persisted[j])

\* C8 (amended): across frames the persisted records follow the order of receipt;
\* the records of one frame appear in the reverse of their derivation order (the
\* entries are popped off the end of the vector).
C8_FrameOrderReversedWithin ==
  \A i, j \in 1..Len(Persisted) :
    i < j =>
      \/ FramePos(Persisted[i][1]) < FramePos(Persisted[j][1])
      \/ /\ Persisted[i][1] = Persisted[j][1]
         /\ DerivedPos(Persisted[i]) > DerivedPos(Persisted[j])

\* A batch has been handed off that holds two records of one frame.
C8_Witness ==
  /\ flushed # <<>>
  /\ \E i, j \in 1..Len(flushed[1]) : i < j /\ flushed[1][i][1] = flushed[1][j][1]

\* ------------------------------------------------------------------ C9
\* C9 (as claimed): the handed-off batches and the buffer hold exactly the
\* records derived so far, each once, and the counter counts the buffer.
C9_Lossless ==
  /\ Len(Persisted) = Len(derived)
  /\ Range(Persisted) = Range(derived)
  /\ entries = Len(buf)

\* ----------------------------------------------------------------- C10
Open(i) == conns[i].st = "open"

StrictlyIncreasing(g) ==
  \A j, k \in 1..Len(g) : j < k => g[j].ver < g[k].ver /\ g[j].val.seq < g[k].val.seq

\* What each client has been sent is consistent with the slot.
ClientsConsistent ==
  \A i \in ConnIds :
    /\ StrictlyIncreasing(conns[i].got)
    /\ conns[i].seen <= slot.ver
    /\ conns[i].got # <<>> =>
         /\ Last(conns[i].got).ver <= conns[i].seen
         /\ Last(conns[i].got).ver = slot.ver => Last(conns[i].got).val = slot.val

\* C10: a publish replaces the slot's value and leaves every open connection's
\* write loop with an unseen version; a write sends the slot's current value;
\* so what a client is sent is in publish order, without repetition.
C10_LatestValue ==
  /\ []ClientsConsistent
  /\ [][slot' # slot
          => /\ slot'.ver = slot.ver + 1
             /\ dataq # <<>> /\ slot'.val = Head(dataq)
             /\ \A i \in ConnIds : Open(i) => conns'[i].seen # slot'.ver]_vars
  /\ [][\A i \in ConnIds :
          conns'[i].got # conns[i].got
            => conns'[i].got = Append(conns[i].got, [ver |-> slot.ver, val |-> slot.val])]_vars
  /\ [](\A i \in ConnIds : (Open(i) /\ conns[i].seen # slot.ver /\ tpc = "select")
          => ENABLED WsWrite(i))

\* One client was sent both frames, another only the second: the first was
\* superseded before that client's write loop ran.
C10_Witness ==
  \E i, j \in ConnIds :
    /\ Len(conns[i].got) = 2
    /\ Len(conns[j].got) = 1
    /\ conns[j].got[1] = conns[i].got[2]

\* ----------------------------------------------------------------- C11
\* The handler's shutdown_tx.send(true) step.
ShutdownSendStep == hpc = "send" /\ hpc' = "join"

\* C11: the shutdown value and the cleared running flag never revert; the signal's
\* version changes at most once in a run, from 0 to 1 and together with the value
\* true; and every handler send that finds the subscriber alive leaves the signal
\* broadcast exactly once, however many times the handler has run.
C11_ShutdownOnce ==
  [][/\ shutdown.val => shutdown'.val
     /\ ~running => ~running'
     /\ shutdown'.ver # shutdown.ver
          => shutdown.ver = 0 /\ shutdown'.ver = 1 /\ ~shutdown.val /\ shutdown'.val
     /\ (ShutdownSendStep /\ ShutdownRxAlive) => shutdown'.ver = 1 /\ shutdown'.val
     /\ (ShutdownSendStep /\ ~ShutdownRxAlive)
          => shutdown' = shutdown /\ errs'.shutdown = errs.shutdown + 1]_vars

\* The handler has run twice: the first send was broadcast, the second found no
\* subscriber.
C11_Witness ==
  /\ intr = 2
  /\ hpc = "join"
  /\ shutdown = [val |-> TRUE, ver |-> 1]
  /\ errs.shutdown = 1

\* ----------------------------------------------------------------- C12
\* C12 (as claimed): the running flag is cleared, and the loop left, only after
\* the tokio thread has been joined.
C12_JoinBeforeExit ==
  (~running \/ rtpc \in {"exited", "terminated"}) => tpc = "finished"

\* ----------------------------------------------------------------- C13
\* The device returned on read-back exactly the word that was written.
Faithful == devCfg = ConfigToWord(request)

\* C13: for every Config built from the enums, decoding the word it encodes to
\* gives the Config back; so ADS101x::config on a device that returns the word
\* written leaves self.config equal to the Config requested.
C13_RoundTrip ==
  /\ apc = "new" => ConfigFromWord(ConfigToWord(request)) = request
  /\ (apc = "configured" /\ io = "ok" /\ Faithful) => config = request

\* A Config with the largest gain and data-rate discriminants has been written
\* and read back.
C13_Witness ==
  /\ apc = "configured" /\ io = "ok" /\ Faithful
  /\ request.pga = "Fsr0_256V" /\ request.data_rate = "Sps3300"
  /\ request.mode = "SingleShot" /\ request.os = "On"
  /\ config = request

\* ----------------------------------------------------------------- C14
\* read_raw has returned Ok.
SampleRead == apc = "read" /\ result = "ok"

\* C14 (as claimed): the count decoded by read_raw is in the 12-bit signed range.
C14_CountIn12BitRange ==
  SampleRead => count \in -2048..2047

\* ----------------------------------------------------------------- C15
\* The reference decode: swap the two bytes, take the top 12 bits, sign-extend.
SwapBytes(w) == (w % 256) * 256 + (w \div 256)

RefDecode(w) ==
  LET sample == SwapBytes(w) \div 16
  IN IF sample >= 2048 THEN sample - 4096 ELSE sample

\* C15 (as claimed): the count decoded by read_raw is the reference decode of the
\* word read.
C15_MatchesReference ==
  SampleRead => count = RefDecode(devConv)

\* ----------------------------------------------------------------- C16
\* The transfer word of a 12-bit sample: left-justified in the register, the
\* register's first byte in the word's low byte.
TransferWord(sample) == SwapBytes(((sample + 4096) % 4096) * 16)

\* C16 (as claimed): with gain Fsr2_048V the sample 1000 reads as 1.000 V and the
\* sample -1000 as -1.000 V, in microvolts.
C16_SampleScaled ==
  (SampleRead /\ config.pga = "Fsr2_048V")
    => /\ devConv = TransferWord(1000) => voltage = 1000000
       /\ devConv = TransferWord(-1000) => voltage = -1000000

\* ----------------------------------------------------------------- C17
\* The gain and data-rate bit patterns of a Config word.
PgaBits(w) == (w \div 512) % 8

DataRateBits(w) == (w \div 32) % 8

\* C17: ADS101x::new's decode of any of the 65536 words the Config register may
\* return takes no unreachable!() arm: every field is a value of its enum; the
\* reserved gain patterns 6 and 7 give Fsr0_256V and the reserved data-rate
\* pattern 7 gives Sps3300.
C17_DecodeTotal ==
  (apc = "ready" /\ profile = "decode")
    => /\ \A f \in DOMAIN config : config[f] # Unreachable
       /\ config.os \in SeqRange(OsValues)
       /\ config.mux \in SeqRange(MuxValues)
       /\ config.pga \in SeqRange(PgaValues)
       /\ config.mode \in SeqRange(ModeValues)
       /\ config.data_rate \in SeqRange(DataRateValues)
       /\ config.comp_mode \in SeqRange(CompModeValues)
       /\ config.comp_polarity \in SeqRange(CompPolarityValues)
       /\ config.comp_latch \in SeqRange(CompLatchValues)
       /\ config.comp_queue \in SeqRange(CompQueueValues)
       /\ PgaBits(devCfg) \in {6, 7} => config.pga = "Fsr0_256V"
       /\ DataRateBits(devCfg) = 7 => config.data_rate = "Sps3300"

\* A word with the reserved gain pattern 7 and the reserved data-rate pattern 7
\* has been decoded.
C17_Witness ==
  /\ apc = "ready"
  /\ PgaBits(devCfg) = 7 /\ DataRateBits(devCfg) = 7
  /\ config.pga = "Fsr0_256V" /\ config.data_rate = "Sps3300"

\* ----------------------------------------------------------------- C18
\* An ADS101x::config call whose write and read-back both succeeded and whose
\* read-back decodes to something other than the request.
ConfigStep == apc = "ready" /\ apc' = "configured"

MismatchStep == ConfigStep /\ io' = "ok" /\ ConfigFromWord(devCfg') # request

C19_MismatchIsError ==
  (apc = "configured" /\ io = "ok" /\ config # request) => result = "err"

\* ----------------------------------------------------------------- C20
\* C20 (as claimed): a configure call that observes the disagreement emits a log
\* event.
C20_MismatchLogged ==
  [][MismatchStep => adcLog' = adcLog + 1]_vars

\* ----------------------------------------------------------------- C22
\* Connection i's task ends on an error of its upgrade, read loop or write loop.
ConnFails(i) == conns[i].st \in {"upgrading", "open"} /\ conns'[i].st = "failed"

\* C22: a step in which one connection's task ends on a transport error changes
\* nothing of the listener, of any other connection (its state, the version it
\* has seen, what it has been sent) or of the batcher; and whatever has failed,
\* the listener can accept and the batcher can take a queued frame.
C22_ErrorEndsOnlyThatConnection ==
  /\ [][\A i \in ConnIds :
          ConnFails(i)
            => /\ lpc' = lpc /\ accepted' = accepted /\ tpc' = tpc
               /\ \A j \in ConnIds \ {i} : conns'[j] = conns[j]
               /\ batchVars' = batchVars /\ dataq' = dataq /\ slot' = slot]_vars
  /\ []((TasksRun /\ lpc = "run" /\ accepted < ConnBound) => ENABLED Accept(accepted + 1))
  /\ []((TasksRun /\ bpc = "run" /\ dataq # <<>>) => ENABLED BatcherRecv)

\* The first connection has failed; the second, accepted later, is open and has
\* been sent a frame; the listener and the batcher are running.
C22_Witness ==
  /\ conns[1].st = "failed"
  /\ conns[2].st = "open" /\ conns[2].got # <<>>
  /\ lpc = "run" /\ bpc = "run"

\* ----------------------------------------------------------------- C23
\* C23 (as claimed): at the end of a tick of Context::run whose sensor read
\* succeeded, the frame pushed in that tick carries the reading.
C23_FrameCarriesReading ==
  (rtImpl = "context" /\ rtpc = "check" /\ tickLog = <<"cmd", "push", "read">>)
    => \A k \in 1..Len(dataq) : dataq[k].seq = tick => dataq[k].sensor # 0

\* ----------------------------------------------------------------- C25
\* Every member of the frame is None.
EmptyFrame(f) == f.sensor = 0 /\ f.valve = "none" /\ f.msg = "none"

\* The batcher takes a frame.
RecvStep == dataq # <<>> /\ received' = Append(received, Head(dataq).seq)

\* C25: when the batcher takes a frame whose members are all None, no record is
\* derived, nothing is appended to the buffer, the counter keeps its value and
\* nothing is flushed.
C25_EmptyFrameNoRecord ==
  [][(RecvStep /\ EmptyFrame(Head(dataq)))
       => /\ derived' = derived
          /\ buf' = buf
          /\ entries' = entries
          /\ flushed' = flushed
          /\ errs' = errs]_vars

\* Two all-None frames have gone through the batcher.
C25_Witness ==
  /\ Len(received) >= 2
  /\ derived = <<>> /\ buf = <<>> /\ entries = 0

\* ----------------------------------------------------------------- C28
\* C28: once the data receiver is gone (tokio_main has returned an error or the
\* tokio thread has finished), the loop's try_recv, try_send and loop test can
\* still be taken; the failed push leaves the queue as it is and the tick goes
\* on; and the loop is left only with the running flag cleared.
C28_LoopSurvivesTokioExit ==
  /\ [](~dataRx => /\ rtpc = "recv" => ENABLED TryRecvCmd
                   /\ rtpc = "send" => ENABLED TrySendData
                   /\ (rtpc = "check" /\ running /\ tick < TickBound) => ENABLED LoopCheck)
  /\ [][(~dataRx /\ SendStep)
          => /\ dataq' = dataq
             /\ rtpc' = AfterSend
             /\ Last(tickLog') \in {"drop_logged", "drop_silent"}]_vars
  /\ [][(rtpc = "check" /\ rtpc' = "exited") => ~running]_vars

\* The bind failed, the running flag is still set, and the loop has finished its
\* last tick with a logged failed push.
C28_Witness ==
  /\ ~dataRx /\ tpc = "finished" /\ shutdown.ver = 0
  /\ running /\ rtpc = "check" /\ tick = MaxTicks
  /\ tickLog # <<>> /\ Last(tickLog) = "drop_logged"

\* ----------------------------------------------------------------- C29
\* C29: the slot changes only in a step that finds more than 15 ms elapsed since
\* the last forward (or the start), and that step restarts the measurement; a
\* frame taken earlier leaves the slot and the measurement as they are; in both
\* cases the frame's records are derived and persisted alike.
C29_RateLimitedForward ==
  [][/\ slot' # slot => RecvStep /\ elapsed > RateLimitMs /\ elapsed' = 0
     /\ RecvStep
          => /\ elapsed > RateLimitMs => elapsed' = 0
             /\ elapsed <= RateLimitMs => elapsed' = elapsed /\ slot' = slot
             /\ derived' =
                  derived \o ToLineProtocolEntries(Head(dataq), tracked, clockOk).recs
             /\ Len(Persisted') = Len(Persisted) + Len(derived') - Len(derived)]_vars

\* The first frame was taken too early to be forwarded and is persisted; the
\* second was forwarded.
C29_Witness ==
  /\ slot.ver = 1 /\ slot.val.seq = 2
  /\ \E k \in 1..Len(Persisted) : Persisted[k][1] = 1
  /\ \E k \in 1..Len(Persisted) : Persisted[k][1] = 2

\* ----------------------------------------------------------------- C30
\* The loop's try_recv step.
RecvCmdStep == rtpc = "recv" /\ rtpc' = "send"

\* C30: the try_recv can always be taken; only that step takes a command, the
\* one at the head of the channel, and none when the channel is empty; so at most
\* one command is applied per tick, and no command is applied twice or applied
\* and still queued.
C30_AtMostOneCommandPerTick ==
  /\ [](rtpc = "recv" => ENABLED TryRecvCmd)
  /\ [][applied' # applied
          => /\ RecvCmdStep /\ cmdq # <<>>
             /\ applied' = Append(applied, Head(cmdq).id)
             /\ cmdq' = Tail(cmdq)]_vars
  /\ [][(RecvCmdStep /\ cmdq = <<>>) => applied' = applied /\ data' = data]_vars
  /\ [](Len(applied) <= tick)
  /\ [](\A j, k \in 1..Len(applied) : j < k => applied[j] # applied[k])
  /\ [](Range(applied) \cap Range(CmdIds(cmdq)) = {})

\* Two ticks have each applied one command and more are queued.
C30_Witness ==
  /\ tick = 2 /\ Len(applied) = 2
  /\ Len(cmdq) >= 2

\* ----------------------------------------------------------------- C21
\* A read loop takes an inbound message.
ReadMsgStep == nmsgs' = nmsgs + 1

\* C21: a binary message that does not decode is logged and changes nothing of
\* any connection (its state, the version its write loop has seen, what it has
\* been sent), of the command channel or of the slot; a message that decodes is
\* the only one forwarded; and an open connection's read loop can take the next
\* message, of any kind, and its write loop can send an unseen value.
C21_DecodeFailureKeepsConnection ==
  /\ [][(ReadMsgStep /\ lastMsg'.kind = "garbage")
          => /\ errs'.decode = errs.decode + 1
             /\ conns' = conns
             /\ cmdq' = cmdq
             /\ slot' = slot]_vars
  /\ [][cmdq' # cmdq /\ Len(cmdq') > Len(cmdq)
          => /\ ReadMsgStep /\ lastMsg'.kind \in CmdKinds
             /\ cmdq' = Append(cmdq, [id |-> nmsgs', kind |-> lastMsg'.kind])]_vars
  /\ [](\A i \in ConnIds :
          (TasksRun /\ Open(i) /\ conns[i].pend = NoCmd /\ nmsgs < MsgBound)
            => \A m \in MsgKinds : ENABLED WsRead(i, m))
  /\ [](\A i \in ConnIds :
          (TasksRun /\ Open(i) /\ conns[i].seen # slot.ver) => ENABLED WsWrite(i))

\* The first message did not decode; the second, a command, was forwarded by the
\* same connection, which is open and has since been sent a frame.
C21_Witness ==
  /\ nmsgs = 2 /\ errs.decode = 1
  /\ \E k \in 1..Len(cmdq) : cmdq[k].id = 2
  /\ Open(1) /\ conns[1].got # <<>>

\* ----------------------------------------------------------------- C24
\* C24 (as claimed): for an entity none of whose members is annotated as a
\* field, a call of to_line_protocol returns no record.
C24_NoFieldsNoRecord ==
  (gpc = "called" /\ MembersOf(annots, "Field") = <<>>) => line_protocol.ret # "ok"

\* ----------------------------------------------------------------- C26
\* The entry a member is said to contribute: its key is the override or, without
\* one, the member's name; its value is read from that member.
DocumentedEntries(as, variant) ==
  LET sel == MembersOf(as, variant)
  IN [k \in 1..Len(sel) |->
        <<UnwrapOr(sel[k].attributes.key, sel[k].field), sel[k].field>>]

\* C26 (as claimed): a returned record holds, for every member annotated as a
\* tag or as a field and in declaration order, the entry K=<value of that member>
\* where K is the annotation's key or, without one, the member's name; and
\* nothing for a member without annotation.
C26_EntriesAsDocumented ==
  (gpc = "called" /\ line_protocol.ret = "ok")
    => /\ line_protocol.tags = DocumentedEntries(annots, "Tag")
       /\ line_protocol.fields = DocumentedEntries(annots, "Field")

\* ----------------------------------------------------------------- C27
\* The keys of a list of entries are pairwise distinct.
DistinctKeys(es) ==
  \A j, k \in 1..Len(es) : es[j][1] = es[k][1] => j = k

\* C27 (as claimed): in a returned record the tag keys are pairwise distinct and
\* the field keys are pairwise distinct, whatever the members' annotations.
C27_KeysUnique ==
  (gpc = "called" /\ line_protocol.ret = "ok")
    => DistinctKeys(line_protocol.tags) /\ DistinctKeys(line_protocol.fields)

\* ----------------------------------------------------------------- C31
\* The valve report a command leaves behind.
ValveAfter(kind) == IF kind = "ValveOpen" THEN "true" ELSE "false"

MsgAfter(kind) == IF kind = "ValveOpen" THEN "valve opened" ELSE "valve closed"

\* C31 (as claimed): a command applied in a tick sets the valve flag and the
\* message of the frame under construction; once a command has been applied the
\* flag changes only when another command is applied; and every frame pushed
\* carries the flag, and in the tick of a command its message.
C31_ValveFlagPersists ==
  [][/\ (applied' # applied)
          => /\ data'.valve = ValveAfter(Head(cmdq).kind)
             /\ data'.msg = MsgAfter(Head(cmdq).kind)
     /\ (applied' = applied /\ applied # <<>>) => data'.valve = data.valve
     /\ (Len(dataq') > Len(dataq))
          => /\ Last(dataq').valve = data.valve
             /\ Last(dataq').msg = data.msg]_vars

\* ----------------------------------------------------------------- C32
\* The byte length of the largest buffer handed off so far, and no less than
\* the initial capacity.
RECURSIVE HighWater(_)
HighWater(bs) ==
  IF bs = <<>> THEN InitCapacity
  ELSE LET h == HighWater(Tail(bs))
       IN IF BufLen(Head(bs)) > h THEN BufLen(Head(bs)) ELSE h

\* C32: influx_write_buf_capacity starts at 20 and never decreases; after every
\* flush it is the larger of 20 and the length of the largest buffer flushed so
\* far; and every fresh buffer is created with the capacity of that moment.
C32_HighWaterMark ==
  [][/\ capacity' >= capacity
     /\ capacity >= InitCapacity
     /\ (flushed' # flushed) => capacity' = HighWater(flushed')
     /\ bufcap' = capacity']_vars

\* Two buffers have been flushed, the capacity has grown to the length of the
\* largest, and the buffer now in use was created with it.
C32_Witness ==
  /\ Len(flushed) = 2
  /\ capacity > InitCapacity
  /\ capacity = HighWater(flushed)
  /\ bufcap = capacity

\* ----------------------------------------------------------------- C33
\* C33: a frame taken past the rate limit while the slot has no receiver left:
\* the send fails and the slot keeps its value and version, the measurement is
\* restarted all the same, the frame's records are derived and persisted, nothing
\* is logged and the task goes on.
C33_FailedPublishIgnored ==
  /\ [][(RecvStep /\ RateLimitPassed(elapsed) /\ RxCount = 0)
          => /\ sendRes' = "err"
             /\ slot' = slot
             /\ elapsed' = 0
             /\ derived' =
                  derived \o ToLineProtocolEntries(Head(dataq), tracked, clockOk).recs
             /\ Len(Persisted') = Len(Persisted) + Len(derived') - Len(derived)
             /\ errs' = errs
             /\ bpc' = "run"]_vars
  /\ [](sendRes = "err" => bpc = "run")

\* The listener has returned, no connection is left, the last send failed with
\* the slot never written, and the frame it was for is persisted.
C33_Witness ==
  /\ sendRes = "err"
  /\ lpc = "returned" /\ RxCount = 0
  /\ slot.ver = 0 /\ elapsed = 0
  /\ bpc = "run"
  /\ \E k \in 1..Len(Persisted) : Persisted[k][1] = Last(received)

\* ----------------------------------------------------------------- C34
\* C34: for each of the 65536 words the Config register may return, encoding
\* the Config that ADS101x::new decoded gives the word back exactly when its
\* gain bits are not 6 or 7 and its data-rate bits are not 7; and decoding the
\* encoded word gives the decoded Config again.
C34_EncodeNormalises ==
  (apc = "ready" /\ profile = "decode")
    => LET w == ConfigToWord(config)
       IN /\ (w = devCfg) <=> (PgaBits(devCfg) \notin {6, 7} /\ DataRateBits(devCfg) # 7)
          /\ ConfigFromWord(w) = config

\* A word with reserved gain and data-rate patterns has been decoded: encoding
\* the result gives another word, which decodes to the same Config.
C34_Witness ==
  /\ apc = "ready" /\ profile = "decode"
  /\ PgaBits(devCfg) = 6 /\ DataRateBits(devCfg) = 7
  /\ ConfigToWord(config) # devCfg
  /\ PgaBits(ConfigToWord(config)) = 5 /\ DataRateBits(ConfigToWord(config)) = 6
  /\ ConfigFromWord(ConfigToWord(config)) = config

\* ----------------------------------------------------------------- C35
\* C35: an ADS101x::config call whose write or whose read-back fails on the bus
\* returns the error and leaves self.config, and with it the gain read_raw
\* scales by, as it was; a failed write leaves the device's register as it was
\* too, a failed read-back comes after the device was written.
C35_TransportErrorKeepsMirror ==
  [][(ConfigStep /\ io' \in {"write_err", "read_err"})
       => /\ result' = "err"
          /\ config' = config
          /\ AsLsb(config'.pga) = AsLsb(config.pga)
          /\ io' = "write_err" => devCfg' = devCfg
          /\ io' = "read_err" => devCfg' \in ReadBacks(ConfigToWord(request))]_vars

\* The write succeeded and the read-back failed: the device holds the word of
\* the request, with another gain than the one self.config still holds.
C35_Witness ==
  /\ apc = "configured" /\ io = "read_err" /\ result = "err"
  /\ devCfg = ConfigToWord(request)
  /\ config = ConfigFromWord(ResetWord)
  /\ request.pga # config.pga

\* ----------------------------------------------------------------- C36
\* The data channel is closed and drained.
EndOfChannel == dataq = <<>> /\ ~dataTx

NewRecords == SubSeq(derived', Len(derived) + 1, Len(derived'))

\* C37: the records to_line_protocol_entries returns for a frame (the clock
\* being readable) are those of the members that are Some and are declared
\* before the first member without annotation, one each, in declaration order;
\* a member declared after an unannotated one yields none, annotated and Some
\* or not.
C37_StopsAtFirstUntracked ==
  [][(RecvStep /\ clockOk)
       => LET f == Head(dataq)
          IN /\ Len(derived') >= Len(derived)
             /\ \A m \in 1..Len(Members) :
                  (\E k \in 1..Len(NewRecords) : NewRecords[k] = <<f.seq, m>>)
                    <=> (Present(f, m) /\ \A j \in 1..m : tracked[j])
             /\ \A j, k \in 1..Len(NewRecords) :
                  j < k => NewRecords[j][2] < NewRecords[k][2]]_vars

\* The first member is unannotated; frames whose later, annotated, members are
\* Some have gone through the conversion and no record was derived.
C37_Witness ==
  /\ tracked = <<FALSE, TRUE, TRUE>> /\ clockOk
  /\ rtImpl = "main" /\ data.valve # "none"
  /\ Len(received) >= 2
  /\ derived = <<>>

\* ----------------------------------------------------------------- C38
\* Connection i's read loop is suspended in cmd_tx.send(cmd).await.
Suspended(i) == Open(i) /\ conns[i].pend # NoCmd

\* C38: a command read while the channel is full is held by the read loop, which
\* takes no further message until the send completes, and the send can complete
\* as soon as the loop has freed a slot; while the read loop is suspended the
\* connection's write loop still sends whatever the slot holds that it has not
\* seen; and while the connection and the receiver live, the commands applied,
\* then those queued, then the one held are the commands decoded, in order of
\* receipt and once each.
C38_BackPressure ==
  /\ [][\A i \in ConnIds :
          (Open(i) /\ nmsgs' # nmsgs /\ cmdRx /\ Len(cmdq) = CmdCap)
            => /\ conns'[i].pend = [id |-> nmsgs', kind |-> lastMsg'.kind]
               /\ cmdq' = cmdq /\ Open(i)']_vars
  /\ [][\A i \in ConnIds : (Suspended(i) /\ Suspended(i)') => nmsgs' = nmsgs]_vars
  /\ [](\A i \in ConnIds :
          (TasksRun /\ Suspended(i) /\ Len(cmdq) < CmdCap) => ENABLED WsSendResume(i))
  /\ [](\A i \in ConnIds :
          (TasksRun /\ Suspended(i) /\ conns[i].seen # slot.ver) => ENABLED WsWrite(i))
  /\ []((cmdRx /\ \A i \in ConnIds : conns[i].st # "failed")
          => applied \o CmdIds(cmdq) \o PendingIds = [k \in 1..nmsgs |-> k])

\* The read loop has held command 17 since before command 1 was applied, and
\* the client has meanwhile been sent a frame that reports command 1.
C38_Witness ==
  /\ Suspended(1) /\ conns[1].pend.id = CmdCap + 1
  /\ applied = <<1>>
  /\ \E k \in 1..Len(conns[1].got) : conns[1].got[k].val.msg = "valve opened"

\* ----------------------------------------------------------------- C39
\* The listener accepts connection i.
AcceptStep(i) == conns[i].st = "none" /\ conns'[i].st = "upgrading"

\* Connection i's write loop has not run yet.
Fresh(i) == Open(i) /\ conns[i].seen = 0 /\ conns[i].got = <<>>

\* C39: a connection's receiver starts from the version the listener's receiver
\* holds, the initial one, whatever has been published by then.  So once a frame
\* has been published the write loop of a connection that has sent nothing can
\* send at once, and it sends what the slot holds; before the first publish no
\* write loop can send, and no client is ever sent the slot's initial value.
C39_LateClientGetsCurrent ==
  /\ [][\A i \in ConnIds : AcceptStep(i) => conns'[i].seen = 0]_vars
  /\ [](\A i \in ConnIds :
          (TasksRun /\ Fresh(i) /\ slot.ver > 0) => ENABLED WsWrite(i))
  /\ [][\A i \in ConnIds :
          (Fresh(i) /\ conns'[i].got # <<>>)
            => conns'[i].got = <<[ver |-> slot.ver, val |-> slot.val]>>]_vars
  /\ [](slot.ver = 0
          => \A i \in ConnIds : conns[i].got = <<>> /\ ~ENABLED WsWrite(i))
  /\ [](\A i \in ConnIds : \A k \in 1..Len(conns[i].got) :
          conns[i].got[k].ver > 0 /\ conns[i].got[k].val # DataDefault)

\* The loop has finished and one frame was published in all.  The client that
\* connected before the publish was sent that frame and nothing before it; the
\* client that connected after it was sent it too.
C39_Witness ==
  /\ tick = MaxTicks /\ rtpc = "check" /\ dataq = <<>>
  /\ slot.ver = 1
  /\ conns[1].got = <<[ver |-> 1, val |-> slot.val]>>
  /\ conns[2].got = <<[ver |-> 1, val |-> slot.val]>>

====
